---- MODULE Spec2Model ----
(***************************************************************************)
(* Sweep/job orchestration of the S4 simulation backend:                   *)
(*   backend/simulation/models.py    (SweepParameter, SweepConfig, ...)    *)
(*   backend/simulation/sweep.py     (expander, run_sweep, job controller) *)
(*   backend/simulation/database.py  (JobDatabase, the SQLite job store)   *)
(*   backend/main.py                 (the request handlers)                *)
(*                                                                         *)
(* Numbers: every float of a request is drawn from small integer values,   *)
(* which binary floating point represents exactly, so that abs, /, int()   *)
(* and linspace are computed here exactly as Python computes them.         *)
(* Optional[T] is a sequence of length 0 (None) or 1 (a value).            *)
(* percent, estimated_remaining_seconds and the timestamps of a progress   *)
(* update are written but never read by the controller and are left out.   *)
(***************************************************************************)
EXTENDS Integers, Sequences, FiniteSets, TLC

\* ------------------------------------------------------------------ bounds
\* Number of job ids (uuid4 values) the model hands out, over both components.
MaxJobs == 1
\* multiprocessing.cpu_count() of the host: the pool's max_workers.
CpuCount == 2
\* The largest number of work items of a sweep in SweepDefs.
MaxItems == 3
\* The largest end value of a sweep parameter in ExpandDefs.
MaxEnd == 3
\* The largest max_workers a direct caller of run_sweep requests.
MaxRequested == 4
\* The latest time datetime.now() returns in the model (the first is 0).
MaxClock == 2
\* Number of job ids the store hands out where several stored jobs are compared.
MaxStoreJobs == 2
\* The largest number of rows of table job_results.
MaxResultRows == 2
\* Number of clients of the progress websocket that may be connected at once.
MaxConns == 2

JobIds == 1..MaxJobs
Conns == 1..MaxConns

None == << >>
Some(x) == << x >>

\* ------------------------------------------------------------ models.py
PENDING == "pending"
RUNNING == "running"
COMPLETED == "completed"
FAILED == "failed"
CANCELLED == "cancelled"
SimulationStatus == {PENDING, RUNNING, COMPLETED, FAILED, CANCELLED}
Terminal == {COMPLETED, FAILED, CANCELLED}

Abs(x) == IF x < 0 THEN -x ELSE x

\* int(q / step) for q >= 0: Python's int() truncates toward zero.
TruncDiv(q, step) == IF step > 0 THEN q \div step ELSE -(q \div (-step))

\* WavelengthRange.num_points (step is validated gt 0).
WavelengthNumPoints(w) == TruncDiv(Abs(w.end - w.start), w.step) + 1

\* SweepParameter.num_points
NumPoints(p) == IF p.step = 0 THEN 1 ELSE TruncDiv(Abs(p.end - p.start), p.step) + 1

RECURSIVE ProdNumPoints(_)
ProdNumPoints(sweeps) ==
    IF sweeps = << >> THEN 1
    ELSE NumPoints(Head(sweeps)) * ProdNumPoints(Tail(sweeps))

\* SweepConfig.total_simulations
TotalSimulations(sc) ==
    ProdNumPoints(sc.sweeps) * WavelengthNumPoints(sc.base_config.wavelength)

\* SimulationConfig's field constraints (gt=0 / ge=0), checked on construction.
ValidConfig(c) ==
    /\ c.lattice_constant > 0
    /\ c.radius > 0
    /\ c.thickness > 0
    /\ c.glass_thickness >= 0
    /\ c.n_silicon > 0
    /\ c.k_silicon >= 0

\* ------------------------------------------------------- request payloads
BaseConfig(wl) ==
    [lattice_constant |-> 5, radius |-> 2, thickness |-> 2, glass_thickness |-> 3,
     n_silicon |-> 4, k_silicon |-> 0, wavelength |-> wl]

Param(name, start, end, step) ==
    [name |-> name, start |-> start, end |-> end, step |-> step]

W1 == [start |-> 8, end |-> 8, step |-> 1]
W2 == [start |-> 8, end |-> 9, step |-> 1]

\* The sweep definitions a caller submits in the model.
SweepDefs ==
    { [base_config |-> BaseConfig(W1), sweeps |-> << >>],
      [base_config |-> BaseConfig(W2), sweeps |-> << Param("r", 1, 3, 1) >>],
      [base_config |-> BaseConfig(W1), sweeps |-> << Param("r", 1, 2, 1), Param("r", 4, 4, 0) >>],
      [base_config |-> BaseConfig(W1), sweeps |-> << Param("a", 1, 2, -1) >>],
      [base_config |-> BaseConfig(W1), sweeps |-> << Param("t", 1, 3, -1) >>],
      [base_config |-> BaseConfig(W1), sweeps |-> << Param("r", 0, 1, 1) >>] }

\* The sweep parameters and sweep definitions handed to the expander directly.
ExpandParams ==
    { Param(nm, 1, e, st) : nm \in {"r", "t"}, e \in 1..MaxEnd, st \in {-1, 0, 1, 2} }

ExpandDefs ==
    { [base_config |-> BaseConfig(W1), sweeps |-> << >>],
      [base_config |-> BaseConfig(W1),
       sweeps |-> << Param("a", 1, 2, 1), Param("r", 1, 2, 1), Param("t", 1, 2, 1) >>] }
    \cup { [base_config |-> BaseConfig(W1), sweeps |-> << p >>] : p \in ExpandParams }
    \cup { [base_config |-> BaseConfig(W1), sweeps |-> << p, q >>] :
              p \in ExpandParams, q \in ExpandParams }

\* The max_workers argument of run_sweep: None, or an int.
Requested == { None } \cup { Some(n) : n \in (-1)..MaxRequested }

\* ------------------------------------------------ sweep.py: the expander
\* np.linspace(start, end, num) for num >= 0 (num < 0 raises ValueError).
Linspace(start, end, num) ==
    [i \in 1..num |->
        IF num = 1 THEN start ELSE start + ((i - 1) * (end - start)) \div (num - 1)]

\* param_ranges[sweep.name] for one sweep parameter (lines 48-55).
ParamRange(p) ==
    IF p.step = 0 THEN << p.start >> ELSE Linspace(p.start, p.end, NumPoints(p))

\* np.linspace raises for a negative number of samples.
LinspaceRaises(sweeps) ==
    \E i \in 1..Len(sweeps) : sweeps[i].step # 0 /\ NumPoints(sweeps[i]) < 0

\* list(param_ranges.keys()): the distinct names, in order of first insertion.
RECURSIVE ParamNames(_)
ParamNames(sweeps) ==
    IF sweeps = << >> THEN << >>
    ELSE LET init == ParamNames(SubSeq(sweeps, 1, Len(sweeps) - 1))
             nm == sweeps[Len(sweeps)].name
         IN IF \E k \in 1..Len(init) : init[k] = nm THEN init ELSE Append(init, nm)

\* param_ranges[name]: a later sweep of the same name overwrites an earlier one.
RangeOf(sweeps, name) ==
    LET last == CHOOSE i \in 1..Len(sweeps) :
                    /\ sweeps[i].name = name
                    /\ \A k \in (i + 1)..Len(sweeps) : sweeps[k].name # name
    IN ParamRange(sweeps[last])

ParamValues(sweeps) ==
    LET names == ParamNames(sweeps)
    IN [k \in 1..Len(names) |-> RangeOf(sweeps, names[k])]

RECURSIVE Flatten(_)
Flatten(ss) == IF ss = << >> THEN << >> ELSE Head(ss) \o Flatten(Tail(ss))

\* Product with the first sequence varying fastest.
RECURSIVE ProductFirstFastest(_)
ProductFirstFastest(values) ==
    IF values = << >> THEN << << >> >>
    ELSE LET rest == ProductFirstFastest(Tail(values))
             hd == Head(values)
         IN Flatten([b \in 1..Len(rest) |->
                        [a \in 1..Len(hd) |-> << hd[a] >> \o rest[b]]])

\* itertools.product(*values): the last sequence varies fastest.
RECURSIVE Product(_)
Product(values) ==
    IF values = << >> THEN << << >> >>
    ELSE LET rest == Product(Tail(values))
             hd == Head(values)
         IN Flatten([a \in 1..Len(hd) |->
                        [b \in 1..Len(rest) |-> << hd[a] >> \o rest[b]]])

param_map ==
    [a |-> "lattice_constant", r |-> "radius", t |-> "thickness",
     h |-> "glass_thickness", n |-> "n_silicon", k |-> "k_silicon"]

\* config_dict[full_name] = round(value, 6) for each (name, value) of a combo;
\* round(., 6) leaves the integer values of the model unchanged.
RECURSIVE ApplyCombo(_, _, _)
ApplyCombo(cfg, names, combo) ==
    IF names = << >> THEN cfg
    ELSE ApplyCombo([cfg EXCEPT ![param_map[Head(names)]] = Head(combo)],
                    Tail(names), Tail(combo))

\* The configurations generate_sweep_configs yields, before validation.
GenerateSweepConfigs(sc) ==
    IF sc.sweeps = << >> THEN << sc.base_config >>
    ELSE LET names == ParamNames(sc.sweeps)
             combos == Product(ParamValues(sc.sweeps))
         IN [c \in 1..Len(combos) |-> ApplyCombo(sc.base_config, names, combos[c])]

\* list(generate_sweep_configs(sweep_config)) raises: linspace on a negative
\* count, or SimulationConfig(**config_dict) rejecting a swept value.
ExpandError(sc) ==
    IF sc.sweeps = << >> THEN None
    ELSE IF LinspaceRaises(sc.sweeps)
         THEN Some("Number of samples must be non-negative")
    ELSE IF \E c \in 1..Len(GenerateSweepConfigs(sc)) : ~ValidConfig(GenerateSweepConfigs(sc)[c])
         THEN Some("validation error for SimulationConfig")
    ELSE None

\* The expansion of each sweep definition of the model, tabulated once.
ExpandErrorOf == [sc \in SweepDefs |-> ExpandError(sc)]
ConfigsOf == [sc \in SweepDefs |-> GenerateSweepConfigs(sc)]

\* run_simulation(config) when it returns: a SimulationResult carries its config.
SimulationResult(cfg) == [config |-> cfg]

\* results.sort(key=lambda x: x[0])
RECURSIVE InsertByIdx(_, _)
InsertByIdx(e, s) ==
    IF s = << >> THEN << e >>
    ELSE IF e.idx < Head(s).idx THEN << e >> \o s
    ELSE << Head(s) >> \o InsertByIdx(e, Tail(s))

RECURSIVE SortByIdx(_)
SortByIdx(s) ==
    IF s = << >> THEN << >> ELSE InsertByIdx(s[Len(s)], SortByIdx(SubSeq(s, 1, Len(s) - 1)))

IsSome(e) == e.result # None

\* [r[1] for r in results if r[1] is not None] after the sort (lines 160-161).
SweepReturn(rs) ==
    LET kept == SelectSeq(SortByIdx(rs), IsSome)
    IN [i \in 1..Len(kept) |-> kept[i].result[1]]

\* The ProgressUpdate run_sweep hands to the callback (lines 151-157).
ProgressOf(done, total) ==
    [current |-> done, total |-> total, message |-> "Completed"]

\* ------------------------------------------------------------------ state
VARIABLES
    next_id,        \* the next uuid4 value to be generated
    active_jobs,    \* sweep.py _active_jobs: job id -> JobInfo
    job_results,    \* sweep.py _job_results: job id -> list of results
    pc,             \* position of each job's background task in run_job
    task_sweep,     \* the sweep_config argument of each job's background task
    configs,        \* run_sweep: configs
    futures,        \* run_sweep: state of the future of each index
    results,        \* run_sweep: results, (idx, result) in completion order
    completed,      \* run_sweep: completed
    db_jobs,        \* database.py: table jobs, id -> row
    db_results,     \* database.py: table job_results, the rows in rowid order
    last_op,        \* the operation of the last step and what it returned
    cancelled_from, \* history: the status a job had when cancel first returned true
    executing_at_cancel, \* history: the items executing when cancel returned true
    clock,          \* database.py: the latest value datetime.now() has returned
    call,           \* a direct call of a function of sweep.py: its name and arguments
    ws_pc,          \* main.py: per connection, the position of websocket_progress
    ws_sent,        \* main.py: per connection, the last message sent, if any
    active_connections, \* main.py active_connections: the list of connections
    txn             \* database.py: the open transaction of a connection, if any

vars == << next_id, active_jobs, job_results, pc, task_sweep, configs, futures,
           results, completed, db_jobs, db_results, last_op, cancelled_from,
           executing_at_cancel, clock, call, ws_pc, ws_sent, active_connections, txn >>

ctl_vars == << next_id, active_jobs, job_results, pc, task_sweep, configs, futures,
               results, completed, cancelled_from, executing_at_cancel >>
run_vars == << pc, task_sweep, configs, futures, results, completed >>
db_vars == << db_jobs, db_results, clock >>
ws_vars == << ws_pc, ws_sent, active_connections >>
side_vars == << call, ws_vars, txn >>
other_vars == << db_vars, side_vars >>

Op(op, id, ret, out) == [op |-> op, id |-> id, ret |-> ret, out |-> out]

Init ==
    /\ next_id = 1
    /\ active_jobs = << >>
    /\ job_results = << >>
    /\ pc = [j \in JobIds |-> "none"]
    /\ task_sweep = [j \in JobIds |-> None]
    /\ configs = [j \in JobIds |-> << >>]
    /\ futures = [j \in JobIds |-> << >>]
    /\ results = [j \in JobIds |-> << >>]
    /\ completed = [j \in JobIds |-> 0]
    /\ db_jobs = << >>
    /\ db_results = << >>
    /\ last_op = Op("init", 0, "", << >>)
    /\ cancelled_from = [j \in JobIds |-> "none"]
    /\ executing_at_cancel = [j \in JobIds |-> {}]
    /\ clock = 0
    /\ call = None
    /\ ws_pc = [c \in Conns |-> [at |-> "closed", job_id |-> 0]]
    /\ ws_sent = [c \in Conns |-> None]
    /\ active_connections = << >>
    /\ txn = None

\* d[k] = v for a dict d (a function whose domain grows).
Put(d, k, v) == [x \in DOMAIN d \cup {k} |-> IF x = k THEN v ELSE d[x]]

\* --------------------------------------------- sweep.py: the job controller
\* create_job (lines 174-187)
NewJobInfo(sc) ==
    [status |-> PENDING,
     progress |-> [current |-> 0, total |-> TotalSimulations(sc), message |-> "Job queued"],
     error |-> None]

\* POST /sweep/start: create_job, then run_job is added as a background task.
StartSweep(sc) ==
    /\ active_jobs' = Put(active_jobs, next_id, NewJobInfo(sc))
    /\ pc' = [pc EXCEPT ![next_id] = "scheduled"]
    /\ task_sweep' = [task_sweep EXCEPT ![next_id] = Some(sc)]
    /\ last_op' = Op("start_sweep", next_id, "started", << >>)
    /\ next_id' = next_id + 1
    /\ UNCHANGED << job_results, configs, futures, results, completed, cancelled_from, executing_at_cancel >>
    /\ UNCHANGED other_vars

\* run_job line 204: the background task starts.
RunBegin(j) ==
    /\ pc[j] = "scheduled"
    /\ active_jobs' = [active_jobs EXCEPT ![j].status = RUNNING]
    /\ pc' = [pc EXCEPT ![j] = "expand"]
    /\ last_op' = Op("run", j, "", << >>)
    /\ UNCHANGED << next_id, job_results, task_sweep, configs, futures, results,
                    completed, cancelled_from, executing_at_cancel >>
    /\ UNCHANGED other_vars

\* run_job's except clause (lines 212-214) for an exception with message err.
RunFail(jobs, j, err) == [jobs EXCEPT ![j].status = FAILED, ![j].error = err]

\* run_sweep lines 115-126: the expansion; it raises into run_job's except
\* clause, or returns [] at once for no configuration, or goes on to the pool.
RunExpand(j) ==
    /\ pc[j] = "expand"
    /\ \/ /\ ExpandErrorOf[task_sweep[j][1]] # None
          /\ active_jobs' = RunFail(active_jobs, j, ExpandErrorOf[task_sweep[j][1]])
          /\ pc' = [pc EXCEPT ![j] = "failed"]
          /\ UNCHANGED << configs, futures >>
       \/ /\ ExpandErrorOf[task_sweep[j][1]] = None
          /\ configs' = [configs EXCEPT ![j] = ConfigsOf[task_sweep[j][1]]]
          /\ futures' = [futures EXCEPT ![j] =
                            [i \in 1..Len(ConfigsOf[task_sweep[j][1]]) |-> "new"]]
          /\ pc' = [pc EXCEPT ![j] =
                      IF Len(ConfigsOf[task_sweep[j][1]]) = 0 THEN "store" ELSE "submit"]
          /\ UNCHANGED active_jobs
    /\ last_op' = Op("run", j, "", << >>)
    /\ UNCHANGED << next_id, job_results, task_sweep, results, completed, cancelled_from, executing_at_cancel >>
    /\ UNCHANGED other_vars

\* The index the dict comprehension of lines 129-132 submits next (0-based).
NextToSubmit(j) ==
    CHOOSE i \in 0..(Len(futures[j]) - 1) :
        /\ futures[j][i + 1] = "new"
        /\ \A k \in 0..(i - 1) : futures[j][k + 1] # "new"

\* executor.submit(run_single_config, config_dict) for one index (line 130).
RunSubmit(j) ==
    /\ pc[j] = "submit"
    /\ LET i == NextToSubmit(j)
       IN /\ futures' = [futures EXCEPT ![j][i + 1] = "queued"]
          /\ pc' = [pc EXCEPT ![j] = IF i + 1 = Len(futures[j]) THEN "collect" ELSE "submit"]
    /\ last_op' = Op("run", j, "", << >>)
    /\ UNCHANGED << next_id, active_jobs, job_results, task_sweep, configs, results,
                    completed, cancelled_from, executing_at_cancel >>
    /\ UNCHANGED other_vars

Executing(j) == {i \in 0..(Len(futures[j]) - 1) : futures[j][i + 1] = "running"}

\* WorkerStart for a pool that starts a queued item whether or not a worker is free.
WorkerStartUnbounded(j, i) ==
    /\ i + 1 \in DOMAIN futures[j]
    /\ futures[j][i + 1] = "queued"
    /\ \A k \in 0..(i - 1) : futures[j][k + 1] # "queued"
    /\ futures' = [futures EXCEPT ![j][i + 1] = "running"]
    /\ last_op' = Op("worker", j, "", << >>)
    /\ UNCHANGED << next_id, active_jobs, job_results, pc, task_sweep, configs, results,
                    completed, cancelled_from, executing_at_cancel >>
    /\ UNCHANGED other_vars

\* ProcessPoolExecutor(max_workers=...): a free worker takes the oldest queued item.
WorkerStart(j, i) ==
    /\ i + 1 \in DOMAIN futures[j]
    /\ futures[j][i + 1] = "queued"
    /\ \A k \in 0..(i - 1) : futures[j][k + 1] # "queued"
    /\ Cardinality(Executing(j)) < CpuCount
    /\ futures' = [futures EXCEPT ![j][i + 1] = "running"]
    /\ last_op' = Op("worker", j, "", << >>)
    /\ UNCHANGED << next_id, active_jobs, job_results, pc, task_sweep, configs, results,
                    completed, cancelled_from, executing_at_cancel >>
    /\ UNCHANGED other_vars

\* run_single_config returns (ok = TRUE) or raises (ok = FALSE) in its worker.
WorkerFinish(j, i, ok) ==
    /\ i + 1 \in DOMAIN futures[j]
    /\ futures[j][i + 1] = "running"
    /\ futures' = [futures EXCEPT ![j][i + 1] = IF ok THEN "returned" ELSE "raised"]
    /\ last_op' = Op("worker", j, "", << >>)
    /\ UNCHANGED << next_id, active_jobs, job_results, pc, task_sweep, configs, results,
                    completed, cancelled_from, executing_at_cancel >>
    /\ UNCHANGED other_vars

\* run_job.update_progress (lines 198-201)
UpdateProgress(jobs, j, progress) ==
    IF j \in DOMAIN jobs
    THEN [jobs EXCEPT ![j].progress = progress, ![j].status = RUNNING]
    ELSE jobs

\* The indices whose futures as_completed has already yielded.
Yielded(j) == {results[j][k].idx : k \in DOMAIN results[j]}

\* RunCollect without the try/except around future.result(): the exception of a
\* failed item propagates out of run_sweep into run_job's except clause.
RunCollectNoCatch(j, i) ==
    /\ pc[j] = "collect"
    /\ i + 1 \in DOMAIN futures[j]
    /\ futures[j][i + 1] \in {"returned", "raised"}
    /\ i \notin Yielded(j)
    /\ IF futures[j][i + 1] = "raised"
       THEN /\ active_jobs' = [active_jobs EXCEPT ![j].status = FAILED,
                                                  ![j].error = Some("simulation failed")]
            /\ pc' = [pc EXCEPT ![j] = "failed"]
            /\ UNCHANGED << results, completed >>
       ELSE /\ results' = [results EXCEPT ![j] =
                   Append(@, [idx |-> i, result |-> Some([config |-> configs[j][i + 1]])])]
            /\ completed' = [completed EXCEPT ![j] = @ + 1]
            /\ active_jobs' = [active_jobs EXCEPT
                   ![j].progress = [current |-> completed[j] + 1, total |-> Len(configs[j]),
                                    message |-> "Completed"],
                   ![j].status = RUNNING]
            /\ pc' = [pc EXCEPT ![j] =
                        IF Len(results[j]) + 1 = Len(futures[j]) THEN "store" ELSE "collect"]
    /\ last_op' = Op("run", j, "", << >>)
    /\ UNCHANGED << next_id, job_results, task_sweep, configs, futures, cancelled_from, executing_at_cancel >>
    /\ UNCHANGED other_vars

\* RunCollect leaving the loop at the first failed item, uncounted.
RunCollectBreak(j, i) ==
    /\ pc[j] = "collect"
    /\ i + 1 \in DOMAIN futures[j]
    /\ futures[j][i + 1] \in {"returned", "raised"}
    /\ i \notin Yielded(j)
    /\ IF futures[j][i + 1] = "raised"
       THEN /\ pc' = [pc EXCEPT ![j] = "store"]
            /\ UNCHANGED << active_jobs, results, completed >>
       ELSE /\ results' = [results EXCEPT ![j] =
                   Append(@, [idx |-> i, result |-> Some([config |-> configs[j][i + 1]])])]
            /\ completed' = [completed EXCEPT ![j] = @ + 1]
            /\ active_jobs' = [active_jobs EXCEPT
                   ![j].progress = [current |-> completed[j] + 1, total |-> Len(configs[j]),
                                    message |-> "Completed"],
                   ![j].status = RUNNING]
            /\ pc' = [pc EXCEPT ![j] =
                        IF Len(results[j]) + 1 = Len(futures[j]) THEN "store" ELSE "collect"]
    /\ last_op' = Op("run", j, "", << >>)
    /\ UNCHANGED << next_id, job_results, task_sweep, configs, futures, cancelled_from, executing_at_cancel >>
    /\ UNCHANGED other_vars

\* RunCollect for an as_completed that may yield a finished future again.
RunCollectAgain(j, i) ==
    /\ pc[j] = "collect"
    /\ i + 1 \in DOMAIN futures[j]
    /\ futures[j][i + 1] \in {"returned", "raised"}
    /\ results' = [results EXCEPT ![j] =
           Append(@, [idx |-> i,
                      result |-> IF futures[j][i + 1] = "returned"
                                 THEN Some([config |-> configs[j][i + 1]]) ELSE None])]
    /\ completed' = [completed EXCEPT ![j] = @ + 1]
    /\ active_jobs' = [active_jobs EXCEPT
           ![j].progress = [current |-> completed[j] + 1, total |-> Len(configs[j]),
                            message |-> "Completed"],
           ![j].status = RUNNING]
    /\ pc' = [pc EXCEPT ![j] =
                IF Len(results[j]) + 1 = Len(futures[j]) THEN "store" ELSE "collect"]
    /\ last_op' = Op("run", j, "", << >>)
    /\ UNCHANGED << next_id, job_results, task_sweep, configs, futures, cancelled_from,
                    executing_at_cancel >>
    /\ UNCHANGED other_vars

\* One iteration of `for future in as_completed(futures)` (lines 134-157):
\* any finished future not yet yielded comes next.
RunCollect(j, i) ==
    /\ pc[j] = "collect"
    /\ i + 1 \in DOMAIN futures[j]
    /\ futures[j][i + 1] \in {"returned", "raised"}
    /\ i \notin Yielded(j)
    /\ LET res == IF futures[j][i + 1] = "returned"
                  THEN Some(SimulationResult(configs[j][i + 1])) ELSE None
           total == Len(configs[j])
           done == completed[j] + 1
       IN /\ results' = [results EXCEPT ![j] = Append(@, [idx |-> i, result |-> res])]
          /\ completed' = [completed EXCEPT ![j] = done]
          /\ active_jobs' = UpdateProgress(active_jobs, j, ProgressOf(done, total))
          /\ pc' = [pc EXCEPT ![j] =
                      IF Len(results[j]) + 1 = Len(futures[j]) THEN "store" ELSE "collect"]
    /\ last_op' = Op("run", j, "", << >>)
    /\ UNCHANGED << next_id, job_results, task_sweep, configs, futures, cancelled_from, executing_at_cancel >>
    /\ UNCHANGED other_vars

\* run_job with lines 208 and 209 exchanged: the status is set to COMPLETED
\* before the results are stored.
RunStoreStatusFirst(j) ==
    /\ pc[j] = "store"
    /\ active_jobs' = [active_jobs EXCEPT ![j].status = COMPLETED]
    /\ pc' = [pc EXCEPT ![j] = "complete"]
    /\ last_op' = Op("run", j, "", << >>)
    /\ UNCHANGED << next_id, job_results, task_sweep, configs, futures, results,
                    completed, cancelled_from, executing_at_cancel >>
    /\ UNCHANGED other_vars

\* run_sweep returns (lines 160-161) and run_job line 208 stores the list.
RunStore(j) ==
    /\ pc[j] = "store"
    /\ job_results' = Put(job_results, j, SweepReturn(results[j]))
    /\ pc' = [pc EXCEPT ![j] = "complete"]
    /\ last_op' = Op("run", j, "", << >>)
    /\ UNCHANGED << next_id, active_jobs, task_sweep, configs, futures, results,
                    completed, cancelled_from, executing_at_cancel >>
    /\ UNCHANGED other_vars

\* run_job lines 209-210
RunComplete(j) ==
    /\ pc[j] = "complete"
    /\ active_jobs' = [active_jobs EXCEPT ![j].status = COMPLETED,
                                          ![j].progress.message = "Completed successfully"]
    /\ pc' = [pc EXCEPT ![j] = "done"]
    /\ last_op' = Op("run", j, "", << >>)
    /\ UNCHANGED << next_id, job_results, task_sweep, configs, futures, results,
                    completed, cancelled_from, executing_at_cancel >>
    /\ UNCHANGED other_vars

\* CancelSweep marking every job of _active_jobs as cancelled.
CancelSweepAll(j) ==
    /\ IF j \in DOMAIN active_jobs
       THEN /\ active_jobs' = [x \in DOMAIN active_jobs |->
                                  [active_jobs[x] EXCEPT !.status = CANCELLED]]
            /\ cancelled_from' = [cancelled_from EXCEPT ![j] =
                                     IF @ = "none" THEN active_jobs[j].status ELSE @]
            /\ executing_at_cancel' = [executing_at_cancel EXCEPT ![j] = @ \cup Executing(j)]
            /\ last_op' = Op("cancel", j, "true", << >>)
       ELSE /\ UNCHANGED << active_jobs, cancelled_from, executing_at_cancel >>
            /\ last_op' = Op("cancel", j, "false", << >>)
    /\ UNCHANGED << next_id, job_results >>
    /\ UNCHANGED run_vars
    /\ UNCHANGED other_vars

\* cancel_job (lines 234-237) behind POST /sweep/cancel/{job_id}
CancelSweep(j) ==
    /\ IF j \in DOMAIN active_jobs
       THEN /\ active_jobs' = [active_jobs EXCEPT ![j].status = CANCELLED]
            /\ cancelled_from' = [cancelled_from EXCEPT ![j] =
                                     IF @ = "none" THEN active_jobs[j].status ELSE @]
            /\ executing_at_cancel' = [executing_at_cancel EXCEPT ![j] = @ \cup Executing(j)]
            /\ last_op' = Op("cancel", j, "true", << >>)
       ELSE /\ UNCHANGED << active_jobs, cancelled_from, executing_at_cancel >>
            /\ last_op' = Op("cancel", j, "false", << >>)
    /\ UNCHANGED << next_id, job_results >>
    /\ UNCHANGED run_vars
    /\ UNCHANGED other_vars

\* GetSweepStatus with _active_jobs.pop(job_id, None) in place of .get(job_id).
GetSweepStatusPop(j) ==
    /\ last_op' = IF j \in DOMAIN active_jobs
                  THEN Op("status", j, active_jobs[j].status, << active_jobs[j].progress >>)
                  ELSE Op("status", j, "not_found", << >>)
    /\ active_jobs' = [x \in (DOMAIN active_jobs) \ {j} |-> active_jobs[x]]
    /\ UNCHANGED << next_id, job_results, run_vars, cancelled_from, executing_at_cancel >>
    /\ UNCHANGED other_vars

\* GET /sweep/status/{job_id}: get_job_status, 404 when it returns None.
GetSweepStatus(j) ==
    /\ last_op' = IF j \in DOMAIN active_jobs
                  THEN Op("status", j, active_jobs[j].status, << active_jobs[j].progress >>)
                  ELSE Op("status", j, "not_found", << >>)
    /\ UNCHANGED ctl_vars
    /\ UNCHANGED other_vars

\* get_job_results: _job_results.get(job_id)
GetJobResults(j) == IF j \in DOMAIN job_results THEN Some(job_results[j]) ELSE None

\* GET /sweep/results/{job_id} (main.py lines 229-240)
GetSweepResults(j) ==
    /\ last_op' = IF j \notin DOMAIN active_jobs
                  THEN Op("results", j, "not_found", << >>)
                  ELSE IF active_jobs[j].status # COMPLETED
                  THEN Op("results", j, "not_completed", << >>)
                  ELSE Op("results", j, "ok", GetJobResults(j))
    /\ UNCHANGED ctl_vars
    /\ UNCHANGED other_vars

Next ==
    \/ \E sc \in SweepDefs : next_id <= MaxJobs /\ StartSweep(sc)
    \/ \E j \in JobIds : RunBegin(j)
    \/ \E j \in JobIds : RunExpand(j)
    \/ \E j \in JobIds : RunSubmit(j)
    \/ \E j \in JobIds, i \in 0..(MaxItems - 1) : WorkerStart(j, i)
    \/ \E j \in JobIds, i \in 0..(MaxItems - 1), ok \in BOOLEAN : WorkerFinish(j, i, ok)
    \/ \E j \in JobIds, i \in 0..(MaxItems - 1) : RunCollect(j, i)
    \/ \E j \in JobIds : RunStore(j)
    \/ \E j \in JobIds : RunComplete(j)
    \/ \E j \in JobIds : CancelSweep(j)
    \/ \E j \in JobIds : GetSweepStatus(j)
    \/ \E j \in JobIds : GetSweepResults(j)

Spec == Init /\ [][Next]_vars

\* The steps of the background tasks and of the pool's workers, without any
\* request after the submission: the setting of a job that is never cancelled.
LiveNext ==
    \/ \E sc \in SweepDefs : next_id <= MaxJobs /\ StartSweep(sc)
    \/ \E j \in JobIds : RunBegin(j)
    \/ \E j \in JobIds : RunExpand(j)
    \/ \E j \in JobIds : RunSubmit(j)
    \/ \E j \in JobIds, i \in 0..(MaxItems - 1) : WorkerStart(j, i)
    \/ \E j \in JobIds, i \in 0..(MaxItems - 1), ok \in BOOLEAN : WorkerFinish(j, i, ok)
    \/ \E j \in JobIds, i \in 0..(MaxItems - 1) : RunCollect(j, i)
    \/ \E j \in JobIds : RunStore(j)
    \/ \E j \in JobIds : RunComplete(j)

\* Any step of job j's background task or of a worker of its pool.
JobStep(j) ==
    \/ RunBegin(j)
    \/ RunExpand(j)
    \/ RunSubmit(j)
    \/ \E i \in 0..(MaxItems - 1) : WorkerStart(j, i)
    \/ \E i \in 0..(MaxItems - 1), ok \in BOOLEAN : WorkerFinish(j, i, ok)
    \/ \E i \in 0..(MaxItems - 1) : RunCollect(j, i)
    \/ RunStore(j)
    \/ RunComplete(j)

\* A scheduled background task and its pool are not starved: while the job has
\* a step to take (the task's next statement, a worker taking queued work, a
\* compute call returning or raising), one is eventually taken.
LiveSpec == Init /\ [][LiveNext]_vars /\ \A j \in JobIds : WF_vars(JobStep(j))

\* ------------------------------------- main.py: the progress websocket
\* active_connections.remove(websocket): the first occurrence is removed.
RemoveFirst(seq, x) ==
    LET k == CHOOSE i \in DOMAIN seq : seq[i] = x /\ \A h \in 1..(i - 1) : seq[h] # x
    IN [i \in 1..(Len(seq) - 1) |-> IF i < k THEN seq[i] ELSE seq[i + 1]]

\* websocket.accept() of /ws/progress/{job_id} has returned and the connection
\* is appended to active_connections (lines 537-538).
WsAccept(c, j) ==
    /\ ws_pc[c].at = "closed"
    /\ ws_pc' = [ws_pc EXCEPT ![c] = [at |-> "poll", job_id |-> j]]
    /\ ws_sent' = [ws_sent EXCEPT ![c] = None]
    /\ active_connections' = Append(active_connections, c)
    /\ last_op' = Op("ws_accept", j, "", << >>)
    /\ UNCHANGED << ctl_vars, db_vars, call, txn >>

\* Lines 542-548: get_job_status; for an unknown job the error is sent and the
\* loop left (through `finally`, line 558); otherwise status.model_dump(), a
\* copy of the JobInfo as it is now, is sent. The handler keeps `status`, the
\* JobInfo object itself.
WsSend(c) ==
    /\ ws_pc[c].at = "poll"
    /\ IF ws_pc[c].job_id \notin DOMAIN active_jobs
       THEN /\ ws_sent' = [ws_sent EXCEPT ![c] =
                              Some([type |-> "error", data |-> "Job not found"])]
            /\ ws_pc' = [ws_pc EXCEPT ![c].at = "closed"]
            /\ active_connections' = RemoveFirst(active_connections, c)
            /\ last_op' = Op("ws_send", ws_pc[c].job_id, "break", << >>)
       ELSE /\ ws_sent' = [ws_sent EXCEPT ![c] =
                              Some([type |-> "snapshot", data |-> active_jobs[ws_pc[c].job_id]])]
            /\ ws_pc' = [ws_pc EXCEPT ![c].at = "sent"]
            /\ UNCHANGED active_connections
            /\ last_op' = Op("ws_send", ws_pc[c].job_id, "sent", << >>)
    /\ UNCHANGED << ctl_vars, db_vars, call, txn >>

\* Lines 550-553, after `await send_json` has returned: status.status is read
\* from the JobInfo object, which run_job's thread and cancel_job write; a
\* terminal status leaves the loop (through `finally`), any other sleeps 0.5 s
\* and polls again.
WsCheck(c) ==
    /\ ws_pc[c].at = "sent"
    /\ IF active_jobs[ws_pc[c].job_id].status \in {COMPLETED, FAILED, CANCELLED}
       THEN /\ ws_pc' = [ws_pc EXCEPT ![c].at = "closed"]
            /\ active_connections' = RemoveFirst(active_connections, c)
            /\ last_op' = Op("ws_check", ws_pc[c].job_id, "break", << >>)
       ELSE /\ ws_pc' = [ws_pc EXCEPT ![c].at = "poll"]
            /\ UNCHANGED active_connections
            /\ last_op' = Op("ws_check", ws_pc[c].job_id, "sleep", << >>)
    /\ UNCHANGED << ctl_vars, db_vars, call, txn, ws_sent >>

\* WsDisconnect with the removal placed at the end of the try block, not in
\* `finally`: the exception skips it.
WsDisconnectNoRemove(c) ==
    /\ ws_pc[c].at = "poll"
    /\ ws_pc' = [ws_pc EXCEPT ![c].at = "closed"]
    /\ last_op' = Op("ws_disconnect", ws_pc[c].job_id, "", << >>)
    /\ UNCHANGED << ctl_vars, db_vars, call, txn, ws_sent, active_connections >>

\* Lines 555-558: the client has gone and send_json raises WebSocketDisconnect,
\* which is passed over; `finally` removes the connection.
WsDisconnect(c) ==
    /\ ws_pc[c].at = "poll"
    /\ ws_pc' = [ws_pc EXCEPT ![c].at = "closed"]
    /\ active_connections' = RemoveFirst(active_connections, c)
    /\ last_op' = Op("ws_disconnect", ws_pc[c].job_id, "", << >>)
    /\ UNCHANGED << ctl_vars, db_vars, call, txn, ws_sent >>

\* Lines 557-558: send_json raises another exception; `finally` removes the
\* connection and the exception leaves the handler.
WsSendError(c) ==
    /\ ws_pc[c].at = "poll"
    /\ ws_pc' = [ws_pc EXCEPT ![c].at = "closed"]
    /\ active_connections' = RemoveFirst(active_connections, c)
    /\ last_op' = Op("ws_error", ws_pc[c].job_id, "raised", << >>)
    /\ UNCHANGED << ctl_vars, db_vars, call, txn, ws_sent >>

\* The clients of the specification with one client.
WsClients == {1}

\* A job, its background run, cancel, and one client of the progress websocket.
WsNext ==
    \/ \E sc \in SweepDefs : next_id <= MaxJobs /\ StartSweep(sc)
    \/ \E j \in JobIds : JobStep(j)
    \/ \E j \in JobIds : CancelSweep(j)
    \/ \E c \in WsClients, j \in JobIds : WsAccept(c, j)
    \/ \E c \in WsClients : WsSend(c)
    \/ \E c \in WsClients : WsCheck(c)
    \/ \E c \in WsClients : WsDisconnect(c)
    \/ \E c \in WsClients : WsSendError(c)

WsSpec == Init /\ [][WsNext]_vars

\* A job of one work item, its run, cancel, and MaxConns clients of the progress
\* websocket connecting, polling and leaving concurrently.
ConnNext ==
    \/ next_id <= MaxJobs /\ StartSweep([base_config |-> BaseConfig(W1), sweeps |-> << >>])
    \/ \E j \in JobIds : JobStep(j)
    \/ \E j \in JobIds : CancelSweep(j)
    \/ \E c \in Conns, j \in JobIds : WsAccept(c, j)
    \/ \E c \in Conns : WsSend(c)
    \/ \E c \in Conns : WsCheck(c)
    \/ \E c \in Conns : WsDisconnect(c)
    \/ \E c \in Conns : WsSendError(c)

ConnSpec == Init /\ [][ConnNext]_vars

\* ------------------------------------------------ database.py: the job store
\* JobDatabase.create_job lines 113-116: total_sims
RECURSIVE DbTotalSims(_)
DbTotalSims(sweeps) ==
    IF sweeps = << >> THEN 1
    ELSE DbTotalSims(SubSeq(sweeps, 1, Len(sweeps) - 1)) * NumPoints(sweeps[Len(sweeps)])

\* config.model_dump(): a dict keyed by the field names (not the aliases), which
\* json.dumps / json.loads carry unchanged (the numbers of the model are exact).
DumpConfig(c) ==
    [lattice_constant |-> c.lattice_constant, radius |-> c.radius,
     thickness |-> c.thickness, glass_thickness |-> c.glass_thickness,
     n_silicon |-> c.n_silicon, k_silicon |-> c.k_silicon,
     wavelength |-> [start |-> c.wavelength.start, end |-> c.wavelength.end,
                     step |-> c.wavelength.step]]

\* json.dumps(sweep_config.model_dump()) (line 130)
DumpSweep(sc) ==
    [base_config |-> DumpConfig(sc.base_config),
     sweeps |-> [i \in DOMAIN sc.sweeps |->
                    [name |-> sc.sweeps[i].name, start |-> sc.sweeps[i].start,
                     end |-> sc.sweeps[i].end, step |-> sc.sweeps[i].step]]]

\* Validation of one aliased field of SimulationConfig under populate_by_name:
\* the alias key is taken when present, the field name otherwise (a dump always
\* holds the field name, so the field's default is never reached).
FieldOf(d, name, alias) == IF alias \in DOMAIN d THEN d[alias] ELSE d[name]

\* SimulationConfig(**d)
LoadConfig(d) ==
    [lattice_constant |-> FieldOf(d, "lattice_constant", "a"),
     radius |-> FieldOf(d, "radius", "r"),
     thickness |-> FieldOf(d, "thickness", "t"),
     glass_thickness |-> FieldOf(d, "glass_thickness", "h"),
     n_silicon |-> FieldOf(d, "n_silicon", "n"),
     k_silicon |-> FieldOf(d, "k_silicon", "k"),
     wavelength |-> [start |-> d.wavelength.start, end |-> d.wavelength.end,
                     step |-> d.wavelength.step]]

\* SweepConfig(**d) reading base_config only: sweeps takes its default, [].
LoadSweepConfigBaseOnly(d) ==
    [base_config |-> LoadConfig(d.base_config), sweeps |-> << >>]

\* SweepConfig(**json.loads(row['sweep_config'])) (line 288)
LoadSweepConfig(d) ==
    [base_config |-> LoadConfig(d.base_config),
     sweeps |-> [i \in DOMAIN d.sweeps |->
                    Param(d.sweeps[i].name, d.sweeps[i].start, d.sweeps[i].end,
                          d.sweeps[i].step)]]

\* The row JobDatabase.create_job inserts (lines 120-135); completed_at and
\* error are not among the inserted columns and stay NULL.
NewDbRow(sc, now) ==
    [status |-> PENDING, created_at |-> now, updated_at |-> now, completed_at |-> None,
     sweep_config |-> DumpSweep(sc), progress_current |-> 0,
     progress_total |-> DbTotalSims(sc.sweeps),
     progress_message |-> Some("Job queued"), error |-> None]

\* JobDatabase.create_job at time now
DbCreateJob(sc, now) ==
    /\ now >= clock
    /\ db_jobs' = Put(db_jobs, next_id, NewDbRow(sc, now))
    /\ clock' = now
    /\ last_op' = Op("db_create_job", next_id, "", << >>)
    /\ next_id' = next_id + 1
    /\ UNCHANGED << active_jobs, job_results, run_vars, cancelled_from, executing_at_cancel,
                    db_results, side_vars >>

\* UpdatedDbRow with the progress columns always in the SET list, written as 0
\* and NULL when no progress is passed.
UpdatedDbRowResetProgress(row, status, progress, error, now) ==
    [row EXCEPT
        !.status = status,
        !.updated_at = now,
        !.progress_current = IF progress # None THEN progress[1].current ELSE 0,
        !.progress_total = IF progress # None THEN progress[1].total ELSE 0,
        !.progress_message = IF progress # None THEN Some(progress[1].message) ELSE None,
        !.error = IF error # None /\ error # Some("") THEN error ELSE @,
        !.completed_at = IF status \in {COMPLETED, FAILED, CANCELLED} THEN Some(now) ELSE @]

\* The row after the UPDATE of update_job_status (lines 160-189): `if progress`
\* holds for any ProgressUpdate, `if error` for any non-empty string.
UpdatedDbRow(row, status, progress, error, now) ==
    [row EXCEPT
        !.status = status,
        !.updated_at = now,
        !.progress_current = IF progress # None THEN progress[1].current ELSE @,
        !.progress_total = IF progress # None THEN progress[1].total ELSE @,
        !.progress_message = IF progress # None THEN Some(progress[1].message) ELSE @,
        !.error = IF error # None /\ error # Some("") THEN error ELSE @,
        !.completed_at = IF status \in {COMPLETED, FAILED, CANCELLED} THEN Some(now) ELSE @]

\* JobDatabase.update_job_status at time now; the UPDATE matches no row for an
\* unknown id.
DbUpdateJobStatus(j, status, progress, error, now) ==
    /\ now >= clock
    /\ db_jobs' = IF j \in DOMAIN db_jobs
                  THEN [db_jobs EXCEPT ![j] = UpdatedDbRow(@, status, progress, error, now)]
                  ELSE db_jobs
    /\ clock' = now
    /\ last_op' = Op("db_update_job_status", j, "", << >>)
    /\ UNCHANGED << ctl_vars, db_results, side_vars >>

\* json.dumps(result.model_dump()) (lines 207, 225)
DumpResult(result) == [config |-> DumpConfig(result.config)]

\* SimulationResult(**json.loads(row['result_data'])) (line 268)
LoadResult(d) == SimulationResult(LoadConfig(d.config))

\* One row of table job_results (the autoincrement id is the row's position).
ResultRow(j, idx, result, now) ==
    [job_id |-> j, result_index |-> idx, result_data |-> DumpResult(result),
     created_at |-> now]

\* JobDatabase.save_job_result at time now: the INSERT does not look at table jobs.
DbSaveJobResult(j, idx, result, now) ==
    /\ now >= clock
    /\ db_results' = Append(db_results, ResultRow(j, idx, result, now))
    /\ clock' = now
    /\ last_op' = Op("db_save_job_result", j, "", << >>)
    /\ UNCHANGED << ctl_vars, db_jobs, side_vars >>

\* JobDatabase.save_job_results at time now: one INSERT per enumerated result.
DbSaveJobResults(j, rs, now) ==
    /\ now >= clock
    /\ db_results' = db_results \o [i \in 1..Len(rs) |-> ResultRow(j, i - 1, rs[i], now)]
    /\ clock' = now
    /\ last_op' = Op("db_save_job_results", j, "", << >>)
    /\ UNCHANGED << ctl_vars, db_jobs, side_vars >>

\* DELETE FROM job_results WHERE job_id IN ids
WithoutResultsOf(rows, ids) ==
    LET Kept(row) == row.job_id \notin ids IN SelectSeq(rows, Kept)

\* DELETE FROM jobs WHERE id IN ids
WithoutJobs(jobs, ids) == [x \in (DOMAIN jobs) \ ids |-> jobs[x]]

\* JobDatabase.delete_job that deletes the row of table jobs only.
DbDeleteJobKeepResults(j) ==
    /\ db_jobs' = WithoutJobs(db_jobs, {j})
    /\ last_op' = Op("db_delete_job", j, IF j \in DOMAIN db_jobs THEN "true" ELSE "false",
                     << >>)
    /\ UNCHANGED << ctl_vars, db_results, clock, side_vars >>

\* JobDatabase.delete_job: both DELETEs, then rowcount of the second.
DbDeleteJob(j) ==
    /\ db_results' = WithoutResultsOf(db_results, {j})
    /\ db_jobs' = WithoutJobs(db_jobs, {j})
    /\ last_op' = Op("db_delete_job", j, IF j \in DOMAIN db_jobs THEN "true" ELSE "false",
                     << >>)
    /\ UNCHANGED << ctl_vars, clock, side_vars >>

\* cleanup_old_jobs lines 404-407: the ids with created_at < cutoff. Timestamps
\* are ISO strings of one format, whose text order is their time order.
OlderThan(jobs, cutoff) == {x \in DOMAIN jobs : jobs[x].created_at < cutoff}

\* cleanup_old_jobs deleting the jobs created at the cutoff as well.
DbCleanupOldJobsInclusive(days, now) ==
    /\ now >= clock
    /\ LET job_ids == OlderThan(db_jobs, now - days + 1)
       IN /\ db_results' = WithoutResultsOf(db_results, job_ids)
          /\ db_jobs' = WithoutJobs(db_jobs, job_ids)
          /\ last_op' = Op("db_cleanup_old_jobs", 0, "", << days, Cardinality(job_ids) >>)
    /\ clock' = now
    /\ UNCHANGED << ctl_vars, side_vars >>

\* JobDatabase.cleanup_old_jobs(days) at time now
DbCleanupOldJobs(days, now) ==
    /\ now >= clock
    /\ LET job_ids == OlderThan(db_jobs, now - days)
       IN /\ db_results' = WithoutResultsOf(db_results, job_ids)
          /\ db_jobs' = WithoutJobs(db_jobs, job_ids)
          /\ last_op' = Op("db_cleanup_old_jobs", 0, "", << days, Cardinality(job_ids) >>)
    /\ clock' = now
    /\ UNCHANGED << ctl_vars, side_vars >>

\* JobDatabase.get_job_config
DbGetJobConfig(j) ==
    IF j \in DOMAIN db_jobs THEN Some(LoadSweepConfig(db_jobs[j].sweep_config)) ELSE None

\* The row that ORDER BY created_at DESC puts first among ids. Rows of equal
\* created_at come in an order SQLite leaves to the query plan: by descending
\* rowid (plan "desc", a backward index scan) or ascending rowid (plan "asc").
FirstByCreated(jobs, ids, plan) ==
    CHOOSE x \in ids : \A y \in ids \ {x} :
        \/ jobs[x].created_at > jobs[y].created_at
        \/ /\ jobs[x].created_at = jobs[y].created_at
           /\ IF plan = "desc" THEN x > y ELSE x < y

RECURSIVE OrderByCreatedDesc(_, _, _)
OrderByCreatedDesc(jobs, ids, plan) ==
    IF ids = {} THEN << >>
    ELSE LET x == FirstByCreated(jobs, ids, plan)
         IN << x >> \o OrderByCreatedDesc(jobs, ids \ {x}, plan)

\* LIMIT ? OFFSET ?: a negative limit is no limit, a negative offset is 0.
LimitOffset(seq, limit, offset) ==
    LET skip == IF offset < 0 THEN 0 ELSE offset
        rest == SubSeq(seq, skip + 1, Len(seq))
    IN IF limit < 0 \/ limit >= Len(rest) THEN rest ELSE SubSeq(rest, 1, limit)

\* One summary of list_jobs (lines 324-334)
JobSummary(jobs, x) ==
    [job_id |-> x, status |-> jobs[x].status, created_at |-> jobs[x].created_at,
     updated_at |-> jobs[x].updated_at, completed_at |-> jobs[x].completed_at,
     progress_current |-> jobs[x].progress_current,
     progress_total |-> jobs[x].progress_total, error |-> jobs[x].error]

\* JobDatabase.list_jobs(status, limit, offset) under a query plan
DbListJobs(status, limit, offset, plan) ==
    LET ids == {x \in DOMAIN db_jobs : status = None \/ db_jobs[x].status = status[1]}
        page == LimitOffset(OrderByCreatedDesc(db_jobs, ids, plan), limit, offset)
    IN [i \in 1..Len(page) |-> JobSummary(db_jobs, page[i])]

\* get_resumable_jobs selecting the Pending jobs only.
DbGetResumableJobsPendingOnly(plan) ==
    LET ids == {x \in DOMAIN db_jobs : db_jobs[x].status = PENDING}
        ordered == OrderByCreatedDesc(db_jobs, ids, plan)
    IN [i \in 1..Len(ordered) |->
           [job_id |-> ordered[i], status |-> db_jobs[ordered[i]].status,
            created_at |-> db_jobs[ordered[i]].created_at,
            progress_current |-> db_jobs[ordered[i]].progress_current,
            progress_total |-> db_jobs[ordered[i]].progress_total,
            sweep_config |-> db_jobs[ordered[i]].sweep_config]]

\* JobDatabase.get_resumable_jobs under a query plan
DbGetResumableJobs(plan) ==
    LET ids == {x \in DOMAIN db_jobs : db_jobs[x].status \in {PENDING, RUNNING}}
        ordered == OrderByCreatedDesc(db_jobs, ids, plan)
    IN [i \in 1..Len(ordered) |->
           [job_id |-> ordered[i], status |-> db_jobs[ordered[i]].status,
            created_at |-> db_jobs[ordered[i]].created_at,
            progress_current |-> db_jobs[ordered[i]].progress_current,
            progress_total |-> db_jobs[ordered[i]].progress_total,
            sweep_config |-> db_jobs[ordered[i]].sweep_config]]

\* The rows of a job in ORDER BY result_index; equal indices keep rowid order.
RECURSIVE OrderByResultIndex(_)
OrderByResultIndex(rows) ==
    IF rows = << >> THEN << >>
    ELSE LET k == CHOOSE a \in DOMAIN rows : \A b \in DOMAIN rows :
                      \/ rows[a].result_index < rows[b].result_index
                      \/ rows[a].result_index = rows[b].result_index /\ a <= b
         IN << rows[k] >> \o
            OrderByResultIndex([i \in 1..(Len(rows) - 1) |->
                                   IF i < k THEN rows[i] ELSE rows[i + 1]])

\* JobDatabase.get_job_results: None when the query returns no row.
DbGetJobResults(j) ==
    LET Mine(row) == row.job_id = j
        rows == OrderByResultIndex(SelectSeq(db_results, Mine))
    IN IF rows = << >> THEN None
       ELSE Some([i \in 1..Len(rows) |-> LoadResult(rows[i].result_data)])

\* The arguments callers pass to update_job_status in the model.
ProgressArgs == { None, Some(ProgressOf(1, 3)) }
ErrorArgs == { None, Some(""), Some("boom") }

StoreNext ==
    \/ \E sc \in SweepDefs, now \in 0..MaxClock : next_id <= MaxJobs /\ DbCreateJob(sc, now)
    \/ \E j \in JobIds, status \in SimulationStatus, progress \in ProgressArgs,
          error \in ErrorArgs, now \in 0..MaxClock :
              DbUpdateJobStatus(j, status, progress, error, now)
    \/ \E j \in JobIds, idx \in 0..1, now \in 0..MaxClock :
          Len(db_results) < MaxResultRows
             /\ DbSaveJobResult(j, idx, SimulationResult(BaseConfig(W1)), now)
    \/ \E j \in JobIds, n \in 0..MaxResultRows, now \in 0..MaxClock :
          Len(db_results) + n <= MaxResultRows
             /\ DbSaveJobResults(j, [i \in 1..n |-> SimulationResult(BaseConfig(W1))], now)
    \/ \E j \in JobIds : DbDeleteJob(j)

StoreSpec == Init /\ [][StoreNext]_vars

\* The store holding several jobs: their creation, status changes, results,
\* deletion and cleanup. The sweep and the result saved do not matter here.
StoreIds == 1..MaxStoreJobs

JobsNext ==
    \/ \E now \in 0..MaxClock :
          next_id <= MaxStoreJobs
             /\ DbCreateJob([base_config |-> BaseConfig(W1), sweeps |-> << >>], now)
    \/ \E j \in StoreIds, status \in SimulationStatus, now \in 0..MaxClock :
          DbUpdateJobStatus(j, status, None, None, now)
    \/ \E j \in StoreIds, now \in 0..MaxClock :
          Len(db_results) < MaxResultRows
             /\ DbSaveJobResult(j, 0, SimulationResult(BaseConfig(W1)), now)
    \/ \E j \in StoreIds : DbDeleteJob(j)
    \/ \E days \in {0, 1}, now \in 0..MaxClock : DbCleanupOldJobs(days, now)

JobsSpec == Init /\ [][JobsNext]_vars

\* ------------------------------------------------ two jobs side by side
MaxPairJobs == 2
PairIds == 1..MaxPairJobs

\* The sweeps of the two jobs: one item with radius 2, one item with radius 4,
\* and a sweep whose expansion raises.
PairDefs ==
    { [base_config |-> BaseConfig(W1), sweeps |-> << >>],
      [base_config |-> BaseConfig(W1), sweeps |-> << Param("r", 1, 2, 1), Param("r", 4, 4, 0) >>],
      [base_config |-> BaseConfig(W1), sweeps |-> << Param("r", 0, 1, 1) >>] }

PairInit ==
    /\ next_id = 1
    /\ active_jobs = << >>
    /\ job_results = << >>
    /\ pc = [j \in PairIds |-> "none"]
    /\ task_sweep = [j \in PairIds |-> None]
    /\ configs = [j \in PairIds |-> << >>]
    /\ futures = [j \in PairIds |-> << >>]
    /\ results = [j \in PairIds |-> << >>]
    /\ completed = [j \in PairIds |-> 0]
    /\ db_jobs = << >>
    /\ db_results = << >>
    /\ last_op = Op("init", 0, "", << >>)
    /\ cancelled_from = [j \in PairIds |-> "none"]
    /\ executing_at_cancel = [j \in PairIds |-> {}]
    /\ clock = 0
    /\ call = None
    /\ ws_pc = [c \in Conns |-> [at |-> "closed", job_id |-> 0]]
    /\ ws_sent = [c \in Conns |-> None]
    /\ active_connections = << >>
    /\ txn = None

\* Each of the two ids is a job of the controller (started, run, cancelled) or
\* a job of the store (created, updated).
PairNext ==
    \/ \E sc \in PairDefs : next_id <= MaxPairJobs /\ StartSweep(sc)
    \/ \E j \in PairIds : JobStep(j)
    \/ \E j \in PairIds : CancelSweep(j)
    \/ \E sc \in PairDefs : next_id <= MaxPairJobs /\ DbCreateJob(sc, clock)
    \/ \E j \in PairIds, status \in SimulationStatus, progress \in ProgressArgs :
          DbUpdateJobStatus(j, status, progress, None, clock)

PairSpec == PairInit /\ [][PairNext]_vars

\* ------------------------------- database.py: one write, statement by statement
\* The write operations a caller starts, with a fixed sweep, status and result:
\* n is the batch size of save_job_results and the days of cleanup_old_jobs.
TxnCalls ==
    { [op |-> o, id |-> j, now |-> t, n |-> 0] :
        o \in {"create_job", "update_job_status", "save_job_result", "delete_job"},
        j \in StoreIds, t \in 0..MaxClock }
    \cup { [op |-> "save_job_results", id |-> j, now |-> t, n |-> n] :
             j \in StoreIds, t \in 0..MaxClock, n \in 0..MaxResultRows }
    \cup { [op |-> "cleanup_old_jobs", id |-> 0, now |-> t, n |-> d] :
             t \in 0..MaxClock, d \in {0, 1} }

\* One SQL statement of the model.
Stmt(kind, ids, idx, now) == [kind |-> kind, ids |-> ids, idx |-> idx, now |-> now]

\* The statements an operation executes on its connection, in order; the
\* SELECT of cleanup_old_jobs (lines 402-406) reads the committed table jobs.
StmtsOf(c, jobs) ==
    CASE c.op = "create_job" -> << Stmt("insert_job", {c.id}, 0, c.now) >>
      [] c.op = "update_job_status" -> << Stmt("update_job", {c.id}, 0, c.now) >>
      [] c.op = "save_job_result" -> << Stmt("insert_result", {c.id}, 0, c.now) >>
      [] c.op = "save_job_results" ->
            [i \in 1..c.n |-> Stmt("insert_result", {c.id}, i - 1, c.now)]
      [] c.op = "delete_job" ->
            << Stmt("delete_results", {c.id}, 0, c.now), Stmt("delete_jobs", {c.id}, 0, c.now) >>
      [] c.op = "cleanup_old_jobs" ->
            LET job_ids == OlderThan(jobs, c.now - c.n)
            IN IF job_ids = {} THEN << >>
               ELSE << Stmt("delete_results", job_ids, 0, c.now),
                       Stmt("delete_jobs", job_ids, 0, c.now) >>

\* The tables after one statement.
ExecStmt(st, t) ==
    LET j == CHOOSE x \in st.ids : TRUE
    IN CASE st.kind = "insert_job" ->
              [t EXCEPT !.jobs = Put(@, j, NewDbRow([base_config |-> BaseConfig(W1),
                                                     sweeps |-> << >>], st.now))]
         [] st.kind = "update_job" ->
              [t EXCEPT !.jobs = IF j \in DOMAIN @
                                 THEN [@ EXCEPT ![j] = UpdatedDbRow(@, RUNNING, None, None, st.now)]
                                 ELSE @]
         [] st.kind = "insert_result" ->
              [t EXCEPT !.results = Append(@, ResultRow(j, st.idx,
                                               SimulationResult(BaseConfig(W1)), st.now))]
         [] st.kind = "delete_results" ->
              [t EXCEPT !.results = WithoutResultsOf(@, st.ids)]
         [] st.kind = "delete_jobs" ->
              [t EXCEPT !.jobs = WithoutJobs(@, st.ids)]

\* _get_connection line 44 and the operation up to its first statement.
TxnBegin(c) ==
    /\ txn = None
    /\ c.now >= clock
    /\ c.op = "create_job" => c.id = next_id /\ next_id <= MaxStoreJobs
    /\ c.op = "save_job_result" => Len(db_results) < MaxResultRows
    /\ c.op = "save_job_results" => Len(db_results) + c.n <= MaxResultRows
    /\ txn' = Some([call |-> c, todo |-> StmtsOf(c, db_jobs),
                    jobs |-> db_jobs, results |-> db_results])
    /\ clock' = c.now
    /\ last_op' = Op("txn_begin", c.id, "", << >>)
    /\ UNCHANGED << ctl_vars, db_jobs, db_results, call, ws_vars >>

\* cursor.execute on a connection opened with isolation_level=None: every
\* statement is committed as it is executed.
TxnExecuteAutocommit ==
    /\ txn # None
    /\ txn[1].todo # << >>
    /\ LET t == ExecStmt(Head(txn[1].todo), [jobs |-> txn[1].jobs, results |-> txn[1].results])
       IN /\ txn' = Some([txn[1] EXCEPT !.todo = Tail(@), !.jobs = t.jobs,
                                        !.results = t.results])
          /\ db_jobs' = t.jobs
          /\ db_results' = t.results
    /\ last_op' = Op("txn_execute", txn[1].call.id, "", << >>)
    /\ UNCHANGED << ctl_vars, clock, call, ws_vars >>

\* cursor.execute of the operation's next statement: sqlite3 opens a
\* transaction before the first INSERT, UPDATE or DELETE of the connection, and
\* the statement changes the connection's view only.
TxnExecute ==
    /\ txn # None
    /\ txn[1].todo # << >>
    /\ LET t == ExecStmt(Head(txn[1].todo), [jobs |-> txn[1].jobs, results |-> txn[1].results])
       IN txn' = Some([txn[1] EXCEPT !.todo = Tail(@), !.jobs = t.jobs,
                                     !.results = t.results])
    /\ last_op' = Op("txn_execute", txn[1].call.id, "", << >>)
    /\ UNCHANGED << ctl_vars, db_vars, call, ws_vars >>

\* _get_connection line 48: conn.commit() after the block has run to its end.
TxnCommit ==
    /\ txn # None
    /\ txn[1].todo = << >>
    /\ db_jobs' = txn[1].jobs
    /\ db_results' = txn[1].results
    /\ next_id' = IF txn[1].call.op = "create_job" THEN next_id + 1 ELSE next_id
    /\ txn' = None
    /\ last_op' = Op("txn_commit", txn[1].call.id, "", << >>)
    /\ UNCHANGED << active_jobs, job_results, run_vars, cancelled_from,
                    executing_at_cancel, clock, call, ws_vars >>

\* _get_connection lines 49-53: a statement raised and conn.rollback() runs; or
\* the process died, and SQLite discards the uncommitted transaction.
TxnRollback ==
    /\ txn # None
    /\ txn' = None
    /\ last_op' = Op("txn_rollback", txn[1].call.id, "", << >>)
    /\ UNCHANGED << ctl_vars, db_vars, call, ws_vars >>

TxnNext ==
    \/ \E c \in TxnCalls : TxnBegin(c)
    \/ TxnExecute
    \/ TxnCommit
    \/ TxnRollback

TxnSpec == Init /\ [][TxnNext]_vars

\* ------------------------------------------- sweep.py called as a library
\* run_sweep lines 111-112
MaxWorkers(requested) == IF requested = None THEN CpuCount ELSE requested[1]

\* run_sweep(sweep_config, None, max_workers) up to the construction of its pool
\* (lines 111-128): the expansion raises, or there is nothing to run, or
\* ProcessPoolExecutor rejects max_workers <= 0, or the pool has max_workers workers.
RunSweepPool(sc, requested) ==
    IF ExpandErrorOf[sc] # None THEN Op("run_sweep", 0, "raised", ExpandErrorOf[sc])
    ELSE IF Len(ConfigsOf[sc]) = 0 THEN Op("run_sweep", 0, "returned", << >>)
    ELSE IF MaxWorkers(requested) <= 0
         THEN Op("run_sweep", 0, "raised", << "max_workers must be greater than 0" >>)
    ELSE Op("run_sweep", 0, "pool", << MaxWorkers(requested) >>)

\* The calls a direct caller makes.
Calls ==
    { [fn |-> "run_sweep", sweep |-> sc, max_workers |-> mw] :
        sc \in SweepDefs, mw \in Requested }
    \cup { [fn |-> "generate_sweep_configs", sweep |-> sc, max_workers |-> None] :
             sc \in ExpandDefs }
    \cup { [fn |-> "run_job", sweep |-> sc, max_workers |-> None] : sc \in SweepDefs }

CallInit ==
    /\ next_id = 1
    /\ active_jobs = << >>
    /\ job_results = << >>
    /\ pc = [j \in JobIds |-> "none"]
    /\ task_sweep = [j \in JobIds |-> None]
    /\ configs = [j \in JobIds |-> << >>]
    /\ futures = [j \in JobIds |-> << >>]
    /\ results = [j \in JobIds |-> << >>]
    /\ completed = [j \in JobIds |-> 0]
    /\ db_jobs = << >>
    /\ db_results = << >>
    /\ last_op = Op("init", 0, "", << >>)
    /\ cancelled_from = [j \in JobIds |-> "none"]
    /\ executing_at_cancel = [j \in JobIds |-> {}]
    /\ clock = 0
    /\ call \in { Some(c) : c \in Calls }
    /\ ws_pc = [c \in Conns |-> [at |-> "closed", job_id |-> 0]]
    /\ ws_sent = [c \in Conns |-> None]
    /\ active_connections = << >>
    /\ txn = None

CallRunSweep ==
    /\ last_op.op = "init"
    /\ call[1].fn = "run_sweep"
    /\ last_op' = RunSweepPool(call[1].sweep, call[1].max_workers)
    /\ UNCHANGED << ctl_vars, db_vars, side_vars >>

\* list(generate_sweep_configs(sweep_config))
CallGenerateSweepConfigs ==
    /\ last_op.op = "init"
    /\ call[1].fn = "generate_sweep_configs"
    /\ last_op' = IF ExpandError(call[1].sweep) # None
                  THEN Op("generate_sweep_configs", 0, "raised", ExpandError(call[1].sweep))
                  ELSE Op("generate_sweep_configs", 0, "returned",
                          GenerateSweepConfigs(call[1].sweep))
    /\ UNCHANGED << ctl_vars, db_vars, side_vars >>

\* run_job(job_id, sweep_config) for a job_id that create_job never returned:
\* line 204 raises KeyError inside the try, and the handler's own
\* _active_jobs[job_id] on line 213 raises KeyError again, out of run_job.
CallRunJobAbsent ==
    /\ last_op.op = "init"
    /\ call[1].fn = "run_job"
    /\ \E j \in JobIds :
          /\ j \notin DOMAIN active_jobs
          /\ last_op' = Op("run_job", j, "raised", << "KeyError" >>)
    /\ UNCHANGED << ctl_vars, db_vars, side_vars >>

CallNext == CallRunSweep \/ CallGenerateSweepConfigs \/ CallRunJobAbsent

CallSpec == CallInit /\ [][CallNext]_vars

\* ------------------------------------------------------------------ claims
Exists(j) == j \in DOMAIN active_jobs
StatusOf(j) == active_jobs[j].status

\* C1: terminal states are absorbing: a status that is Completed, Failed or
\* Cancelled is not changed by any later step.
C1_TerminalAbsorbing ==
    [][\A j \in JobIds :
         (Exists(j) /\ StatusOf(j) \in Terminal) => active_jobs'[j].status = StatusOf(j)]_vars

\* C2: once cancel has returned true for a job, its run hands no further work
\* item to the worker pool.
C2_NoDispatchAfterCancel ==
    [][\A j \in JobIds :
         cancelled_from[j] # "none" =>
            \A i \in DOMAIN futures[j] : futures[j][i] = "new" => futures'[j][i] = "new"]_vars

\* The results a finished pool leaves: those of the items whose compute returned.
Returned(j) == {i \in DOMAIN futures[j] : futures[j][i] = "returned"}

\* C3: item failures do not fail the job: a run fails only on a job-level
\* exception, and the step that ends a run leaves status Completed, current equal
\* to the number of work items, no error, every item executed, and exactly the
\* results of the items that succeeded.
C3_ItemFailureIsolated ==
    [][\A j \in JobIds :
         /\ pc'[j] = "failed" => ExpandErrorOf[task_sweep[j][1]] # None
         /\ (pc[j] = "complete" /\ pc'[j] = "done") =>
               /\ active_jobs'[j].status = COMPLETED
               /\ active_jobs'[j].progress.current = Len(configs[j])
               /\ active_jobs'[j].error = None
               /\ \A i \in DOMAIN futures[j] : futures[j][i] \in {"returned", "raised"}
               /\ Len(job_results'[j]) = Cardinality(Returned(j))
               /\ \A i \in DOMAIN futures[j] :
                     i \in Returned(j) <=>
                        \E k \in DOMAIN job_results'[j] :
                            job_results'[j][k] = SimulationResult(configs[j][i])]_vars

C3_Witness ==
    \E j \in JobIds :
        /\ pc[j] = "done"
        /\ \E i \in DOMAIN futures[j] : futures[j][i] = "raised"
        /\ \E i \in DOMAIN futures[j] : futures[j][i] = "returned"
        /\ last_op = Op("run", j, "", << >>)
        /\ StatusOf(j) = COMPLETED

\* C4: a created job that is never cancelled reaches a terminal state: Failed
\* after a job-level exception, and otherwise Completed with current = total.
C4_RunTerminates ==
    \A j \in JobIds :
        (pc[j] = "scheduled") ~>
            \/ /\ pc[j] = "done"
               /\ StatusOf(j) = COMPLETED
               /\ active_jobs[j].progress.current = active_jobs[j].progress.total
            \/ /\ pc[j] = "failed"
               /\ StatusOf(j) = FAILED
               /\ ExpandErrorOf[task_sweep[j][1]] # None

C4_Witness ==
    \E j \in JobIds :
        /\ pc[j] = "done"
        /\ StatusOf(j) = COMPLETED
        /\ active_jobs[j].progress.current = 3
        /\ active_jobs[j].progress.total = 3

\* C5: 0 <= current <= total in every state of a job, and no step decreases current.
C5_ProgressBounded ==
    [][\A j \in JobIds :
         Exists(j)' =>
            /\ 0 <= active_jobs'[j].progress.current
            /\ active_jobs'[j].progress.current <= active_jobs'[j].progress.total
            /\ Exists(j) =>
                  active_jobs[j].progress.current <= active_jobs'[j].progress.current]_vars

\* C6: after a job completes, the i-th returned result is the result of the
\* i-th configuration of the sweep's enumeration, whatever the completion order
\* and whichever items failed.
C6_ResultsInEnumerationOrder ==
    \A j \in JobIds :
        (pc[j] = "done" /\ j \in DOMAIN job_results) =>
            \A i \in DOMAIN job_results[j] :
                job_results[j][i] = SimulationResult(configs[j][i])

\* C7: the store's record of every job of the controller equals the
\* controller's in-memory copy (status, progress, results).
C7_StoreMirrorsController ==
    \A j \in JobIds :
        Exists(j) =>
            /\ j \in DOMAIN db_jobs
            /\ db_jobs[j].status = StatusOf(j)
            /\ db_jobs[j].progress_current = active_jobs[j].progress.current
            /\ db_jobs[j].progress_total = active_jobs[j].progress.total
            /\ j \in DOMAIN job_results =>
                  \A i \in DOMAIN job_results[j] :
                      \E k \in DOMAIN db_results :
                          /\ db_results[k].job_id = j
                          /\ db_results[k].result_data = job_results[j][i]

\* C8: cancel returns false and changes nothing for an unknown id, returns true
\* and sets Cancelled for a job that is not terminal, and never changes the
\* status of a job that is already terminal.
C8_CancelContract ==
    [][\A j \in JobIds :
         (last_op'.op = "cancel" /\ last_op'.id = j) =>
            IF ~Exists(j)
            THEN last_op'.ret = "false" /\ UNCHANGED ctl_vars
            ELSE IF StatusOf(j) \notin Terminal
            THEN last_op'.ret = "true" /\ active_jobs'[j].status = CANCELLED
            ELSE active_jobs'[j].status = StatusOf(j)]_vars

\* C9: a results request is answered with results only for a Completed job, and
\* once cancel was called on a Pending job every later status query answers
\* Cancelled and every later results request is rejected.
C9_ResultsOnlyWhenCompleted ==
    [][\A j \in JobIds :
         /\ (last_op'.op = "results" /\ last_op'.id = j) =>
               /\ ~Exists(j) => last_op'.ret = "not_found"
               /\ (Exists(j) /\ StatusOf(j) # COMPLETED) => last_op'.ret = "not_completed"
         /\ cancelled_from[j] = PENDING =>
               /\ (last_op'.op = "status" /\ last_op'.id = j) => last_op'.ret = CANCELLED
               /\ (last_op'.op = "results" /\ last_op'.id = j) =>
                     last_op'.ret = "not_completed"]_vars

\* C10: only a job's own run task writes the job's status and progress.
C10_SingleWriter ==
    [][\A j \in JobIds :
         (Exists(j) /\ active_jobs'[j] # active_jobs[j]) =>
            (last_op'.op = "run" /\ last_op'.id = j)]_vars


\* C11: a work item that was executing when cancel returned true is not
\* interrupted, and the step that collects it records its result (or its
\* failure) for the job while the job's status stays Cancelled.
C11_InFlightRecordedWhileCancelled ==
    [][\A j \in JobIds : \A i \in executing_at_cancel[j] :
         /\ futures[j][i + 1] = "running" =>
               futures'[j][i + 1] \in {"running", "returned", "raised"}
         /\ (i \notin Yielded(j) /\ i \in Yielded(j)') =>
               /\ \E k \in DOMAIN results'[j] :
                     /\ results'[j][k].idx = i
                     /\ (results'[j][k].result # None) <=> (futures[j][i + 1] = "returned")
               /\ active_jobs'[j].status = CANCELLED]_vars


\* C12: in one run over N work items the completion step happens exactly once
\* for each index 0..N-1, in any order, and for no other index: each step that
\* records an item appends one entry for an index of 0..N-1 not recorded before,
\* holding the item's result or its failure, counts it and reports the count;
\* when the loop ends the recorded indices are exactly 0..N-1.
C12_CompletionOncePerItem ==
    [][\A j \in JobIds :
         /\ results'[j] # results[j] =>
               \E i \in 0..(Len(configs[j]) - 1) :
                   /\ i \notin Yielded(j)
                   /\ Len(results'[j]) = Len(results[j]) + 1
                   /\ SubSeq(results'[j], 1, Len(results[j])) = results[j]
                   /\ results'[j][Len(results'[j])].idx = i
                   /\ (results'[j][Len(results'[j])].result # None)
                         <=> (futures[j][i + 1] = "returned")
                   /\ completed'[j] = completed[j] + 1
                   /\ active_jobs'[j].progress.current = completed'[j]
         /\ (pc[j] = "collect" /\ pc'[j] = "store") =>
               /\ Yielded(j)' = 0..(Len(configs[j]) - 1)
               /\ Len(results'[j]) = Len(configs[j])
               /\ completed'[j] = Len(configs[j])]_vars

C12_Witness ==
    \E j \in JobIds :
        /\ pc[j] = "store"
        /\ Len(results[j]) = 3
        /\ results[j][1].idx = 2
        /\ results[j][2].idx = 0
        /\ results[j][2].result = None
        /\ completed[j] = 3


\* C13: at every moment of a run, the number of work items executing at the
\* same time is at most the concurrency of the run's pool.
C13_BoundedParallelism ==
    \A j \in JobIds : Cardinality(Executing(j)) <= CpuCount

C13_Witness ==
    \E j \in JobIds :
        /\ Cardinality(Executing(j)) = CpuCount
        /\ \E i \in DOMAIN futures[j] : futures[j][i] = "queued"


\* C14: for every requested max_workers (0, negative and larger than the number
\* of items included; the CPU count when none is requested) a run with at least
\* one item gets a pool, never an error, and the number of items the pool runs
\* at once is max(1, min(requested, total_items)).
C14_ConcurrencyClamped ==
    (call # None /\ last_op.op = "run_sweep"
        /\ ExpandErrorOf[call[1].sweep] = None /\ Len(ConfigsOf[call[1].sweep]) > 0) =>
        LET total_items == Len(ConfigsOf[call[1].sweep])
            requested == MaxWorkers(call[1].max_workers)
            min == IF requested < total_items THEN requested ELSE total_items
            clamped == IF min < 1 THEN 1 ELSE min
        IN /\ last_op.ret = "pool"
           /\ (IF last_op.out[1] < total_items THEN last_op.out[1] ELSE total_items) = clamped


\* C15: the expander yields as many configurations as the product of
\* num_points over all the parameters of the sweep, repeated names included;
\* with no parameter it yields exactly the base configuration.
C15_CountIsProduct ==
    (call # None /\ last_op.op = "generate_sweep_configs" /\ last_op.ret = "returned") =>
        /\ Len(last_op.out) = ProdNumPoints(call[1].sweep.sweeps)
        /\ call[1].sweep.sweeps = << >> => last_op.out = << call[1].sweep.base_config >>

\* The number of combinations of the ranges lo..hi.
RECURSIVE C16_Stride(_, _, _)
C16_Stride(ranges, lo, hi) ==
    IF lo > hi THEN 1 ELSE Len(ranges[lo]) * C16_Stride(ranges, lo + 1, hi)

\* The k-th configuration takes, for the i-th parameter, the value at position
\* ((k - 1) div stride) mod n_i of its range, where stride is the number of
\* combinations of the parameters that vary faster: those declared after it
\* (last_fastest) or those declared before it.
C16_Enumerates(last_fastest) ==
    (call # None /\ last_op.op = "generate_sweep_configs" /\ last_op.ret = "returned"
        /\ call[1].sweep.sweeps # << >>) =>
        LET names == ParamNames(call[1].sweep.sweeps)
            ranges == ParamValues(call[1].sweep.sweeps)
            n == Len(names)
        IN /\ Len(last_op.out) = C16_Stride(ranges, 1, n)
           /\ \A k \in DOMAIN last_op.out : \A i \in 1..n :
                 LET stride == IF last_fastest THEN C16_Stride(ranges, i + 1, n)
                                               ELSE C16_Stride(ranges, 1, i - 1)
                 IN last_op.out[k][param_map[names[i]]]
                      = ranges[i][(((k - 1) \div stride) % Len(ranges[i])) + 1]

\* C16 as stated: the first-declared parameter varies fastest (it changes on
\* every consecutive configuration) and the last-declared one slowest.
C16_FirstVariesFastest == C16_Enumerates(FALSE)

\* C16 as amended: the expander enumerates the Cartesian product of the ranges
\* of the distinct parameter names, in order of first declaration, with the
\* last-declared parameter varying fastest and the first-declared one slowest.
C16_LastVariesFastest == C16_Enumerates(TRUE)

C16_Witness ==
    /\ call # None
    /\ last_op.op = "generate_sweep_configs"
    /\ last_op.ret = "returned"
    /\ Len(call[1].sweep.sweeps) = 3
    /\ Len(last_op.out) = 8
    /\ last_op.out[2].thickness # last_op.out[1].thickness
    /\ last_op.out[2].lattice_constant = last_op.out[1].lattice_constant


\* C17: a sweep with a parameter of non-positive point count is rejected when
\* it is submitted and no job record is created for it; no job exists whose
\* sweep expands to zero work items.
C17_InvalidSweepRejected ==
    [][\A j \in JobIds :
         /\ (~Exists(j) /\ Exists(j)') =>
               \A i \in DOMAIN task_sweep'[j][1].sweeps :
                   NumPoints(task_sweep'[j][1].sweeps[i]) > 0
         /\ (Exists(j)' /\ ExpandErrorOf[task_sweep'[j][1]] = None) =>
               Len(ConfigsOf[task_sweep'[j][1]]) > 0]_vars

\* C18: create yields a Pending job with current = 0 and total equal to the
\* product of num_points over the sweep parameters, which is the total the
\* store's create computes and the number of work items the run executes; the
\* start of the run does not change it.
C18_TotalPrecomputed ==
    [][\A j \in JobIds :
         /\ (~Exists(j) /\ Exists(j)') =>
               /\ active_jobs'[j].status = PENDING
               /\ active_jobs'[j].progress.current = 0
               /\ active_jobs'[j].progress.total = ProdNumPoints(task_sweep'[j][1].sweeps)
               /\ active_jobs'[j].progress.total
                     = NewDbRow(task_sweep'[j][1], clock).progress_total
         /\ (pc[j] = "scheduled" /\ pc'[j] = "expand") =>
               active_jobs'[j].progress.total = active_jobs[j].progress.total
         /\ (pc[j] = "expand" /\ pc'[j] \in {"submit", "store"}) =>
               active_jobs'[j].progress.total = Len(configs'[j])]_vars

\* C19: in the store, completed_at is null while the status is Pending or
\* Running, is set by the update that moves the job into a terminal status, and
\* is not written again by any later update.
C19_CompletedAtSetOnce ==
    [][\A j \in DOMAIN db_jobs' :
         /\ db_jobs'[j].status \in {PENDING, RUNNING} => db_jobs'[j].completed_at = None
         /\ j \in DOMAIN db_jobs =>
               /\ (db_jobs[j].status \notin Terminal /\ db_jobs'[j].status \in Terminal) =>
                     db_jobs'[j].completed_at = Some(clock')
               /\ db_jobs[j].status \in Terminal =>
                     db_jobs'[j].completed_at = db_jobs[j].completed_at]_vars

\* C20: in every reachable state the error of a job, in the controller and in
\* the store, is set only if the job's status is Failed.
C20_ErrorOnlyWhenFailed ==
    /\ \A j \in DOMAIN active_jobs :
          active_jobs[j].error # None => active_jobs[j].status = FAILED
    /\ \A j \in DOMAIN db_jobs :
          db_jobs[j].error # None => db_jobs[j].status = FAILED


\* C22: a step of delete_job(j) leaves no job j and no result of j, leaves every
\* other job and every other result as it was, returns true exactly when job j
\* was stored before the step, and afterwards neither the job's sweep definition
\* nor any result of it can be fetched.
C22_DeleteRemovesJobAndResults ==
    [][\A j \in StoreIds : (last_op'.op = "db_delete_job" /\ last_op'.id = j) =>
         LET Other(row) == row.job_id # j
         IN /\ j \notin DOMAIN db_jobs'
            /\ \A k \in DOMAIN db_results' : db_results'[k].job_id # j
            /\ DOMAIN db_jobs' = (DOMAIN db_jobs) \ {j}
            /\ \A x \in DOMAIN db_jobs' : db_jobs'[x] = db_jobs[x]
            /\ db_results' = SelectSeq(db_results, Other)
            /\ (last_op'.ret = "true") <=> (j \in DOMAIN db_jobs)
            /\ DbGetJobConfig(j)' = None
            /\ DbGetJobResults(j)' = None]_vars

\* A delete that returned true while another job and a result of it are stored.
C22_Witness ==
    /\ last_op.op = "db_delete_job"
    /\ last_op.ret = "true"
    /\ \E x \in DOMAIN db_jobs : \E k \in DOMAIN db_results : db_results[k].job_id = x

\* C23: a step of cleanup(days) at time t deletes exactly the jobs created
\* before t - days and all results of those jobs, leaves every other job and
\* result as it was, and returns the number of jobs it deleted.
C23_CleanupDeletesOldJobs ==
    [][last_op'.op = "db_cleanup_old_jobs" =>
         LET days == last_op'.out[1]
             old == {x \in DOMAIN db_jobs : db_jobs[x].created_at < clock' - days}
             Newer(row) == row.job_id \notin old
         IN /\ DOMAIN db_jobs' = (DOMAIN db_jobs) \ old
            /\ \A x \in DOMAIN db_jobs' : db_jobs'[x] = db_jobs[x]
            /\ db_results' = SelectSeq(db_results, Newer)
            /\ last_op'.out[2] = Cardinality(old)]_vars

\* A cleanup that deleted one job and kept a job created exactly `days` ago
\* together with a result of it.
C23_Witness ==
    /\ last_op.op = "db_cleanup_old_jobs"
    /\ last_op.out[2] = 1
    /\ \E x \in DOMAIN db_jobs :
          /\ db_jobs[x].created_at = clock - last_op.out[1]
          /\ \E k \in DOMAIN db_results : db_results[k].job_id = x

\* C25: in every reachable state of the store, get_resumable_jobs returns each
\* stored job whose status is Pending or Running exactly once and no other job.
C25_ResumableArePendingOrRunning ==
    \A plan \in {"asc", "desc"} :
        LET r == DbGetResumableJobs(plan)
        IN /\ {r[i].job_id : i \in DOMAIN r} =
                 {x \in DOMAIN db_jobs : db_jobs[x].status \in {PENDING, RUNNING}}
           /\ \A i, k \in DOMAIN r : r[i].job_id = r[k].job_id => i = k
           /\ \A i \in DOMAIN r : r[i].status = db_jobs[r[i].job_id].status

\* One job Running and one job Completed are stored.
C25_Witness ==
    /\ \E x \in DOMAIN db_jobs : db_jobs[x].status = RUNNING
    /\ \E x \in DOMAIN db_jobs : db_jobs[x].status = COMPLETED
    /\ Len(DbGetResumableJobs("desc")) = 1


\* C26: in every reachable state of the store, for every status filter, limit
\* and offset, list_jobs returns jobs that match the filter, each at most once,
\* newest-created first; it skips the first `offset` matching jobs and returns
\* at most `limit` of the rest; and pages of one size at consecutive offsets
\* together return every matching job exactly once.
C26_ListNewestFirstPaged ==
    \A plan \in {"asc", "desc"} :
    \A status \in {None} \cup {Some(st) : st \in SimulationStatus} :
        LET matching == {x \in DOMAIN db_jobs :
                            status = None \/ db_jobs[x].status = status[1]}
            n == Cardinality(matching)
            all == DbListJobs(status, n, 0, plan)
        IN /\ \A limit, offset \in -1..(MaxStoreJobs + 1) :
                 LET page == DbListJobs(status, limit, offset, plan)
                     skip == IF offset < 0 THEN 0 ELSE offset
                     most == IF limit < 0 THEN 0 ELSE limit
                     rest == IF n > skip THEN n - skip ELSE 0
                 IN /\ \A i \in DOMAIN page :
                          /\ page[i].job_id \in matching
                          /\ page[i] = JobSummary(db_jobs, page[i].job_id)
                          /\ page[i] = all[skip + i]
                    /\ \A i, k \in DOMAIN page :
                          i < k => /\ page[i].job_id # page[k].job_id
                                   /\ page[i].created_at >= page[k].created_at
                    /\ Len(page) = IF most < rest THEN most ELSE rest
           /\ \A size \in 1..MaxStoreJobs :
                 \A x \in matching :
                    Cardinality({ik \in (0..n) \X (1..size) :
                        LET page == DbListJobs(status, size, ik[1] * size, plan)
                        IN ik[2] \in DOMAIN page /\ page[ik[2]].job_id = x}) = 1


\* C24: in every reachable state of the store the results stored for a job have
\* pairwise distinct result_index values and are at most as many as the job's
\* total number of work items.
C24_ResultIndexUnique ==
    \A j \in DOMAIN db_jobs :
        LET mine == {k \in DOMAIN db_results : db_results[k].job_id = j}
        IN /\ \A a, b \in mine :
                 db_results[a].result_index = db_results[b].result_index => a = b
           /\ Cardinality(mine) <= db_jobs[j].progress_total

\* C27: a step of a store operation called with a job id that is not stored
\* reports not-found and leaves the jobs and the results as they were.
C27_UnknownIdNotFound ==
    [][\A j \in JobIds :
         (/\ last_op'.id = j
          /\ last_op'.op \in {"db_update_job_status", "db_save_job_result",
                              "db_save_job_results", "db_delete_job"}
          /\ j \notin DOMAIN db_jobs) =>
            /\ last_op'.ret \in {"false", "not_found"}
            /\ db_jobs' = db_jobs
            /\ db_results' = db_results]_vars

C28_RunNeverRaises ==
    [][last_op'.op = "run_job" =>
         /\ last_op'.ret # "raised"
         /\ last_op'.id \in DOMAIN active_jobs'
         /\ active_jobs'[last_op'.id].status = FAILED
         /\ active_jobs'[last_op'.id].error \notin {None, Some("")}]_vars


\* C29: the step in which the handler of the progress websocket leaves its loop
\* and closes the channel comes right after a terminal snapshot or the
\* not-found error was sent: the last message sent is one of the two.
C29_ClosesAfterTerminalSnapshot ==
    [][\A c \in Conns :
         (/\ ws_pc[c].at # "closed"
          /\ ws_pc'[c].at = "closed"
          /\ last_op'.op \notin {"ws_disconnect", "ws_error"}) =>
            /\ ws_sent'[c] # None
            /\ \/ ws_sent'[c][1].type = "error"
               \/ ws_sent'[c][1].data.status \in Terminal]_vars


\* C21: every step leaves the committed jobs and results, which are what a
\* reader sees, either as they were or changed by the complete effect of the
\* one write operation that ends in that step; no step installs a part of an
\* operation.
C21_AllOrNothing ==
    [][\/ db_jobs' = db_jobs /\ db_results' = db_results
       \/ /\ txn # None
          /\ txn' = None
          /\ LET c == txn[1].call
                 old == OlderThan(db_jobs, c.now - c.n)
             IN CASE c.op = "create_job" ->
                       /\ db_jobs' = Put(db_jobs, c.id,
                                         NewDbRow([base_config |-> BaseConfig(W1),
                                                   sweeps |-> << >>], c.now))
                       /\ db_results' = db_results
                  [] c.op = "update_job_status" ->
                       /\ db_jobs' = [db_jobs EXCEPT ![c.id] =
                                         UpdatedDbRow(@, RUNNING, None, None, c.now)]
                       /\ db_results' = db_results
                  [] c.op = "save_job_result" ->
                       /\ db_jobs' = db_jobs
                       /\ db_results' = Append(db_results,
                              ResultRow(c.id, 0, SimulationResult(BaseConfig(W1)), c.now))
                  [] c.op = "save_job_results" ->
                       /\ db_jobs' = db_jobs
                       /\ db_results' = db_results \o
                              [i \in 1..c.n |-> ResultRow(c.id, i - 1,
                                                    SimulationResult(BaseConfig(W1)), c.now)]
                  [] c.op = "delete_job" ->
                       /\ db_jobs' = WithoutJobs(db_jobs, {c.id})
                       /\ db_results' = WithoutResultsOf(db_results, {c.id})
                  [] c.op = "cleanup_old_jobs" ->
                       /\ db_jobs' = WithoutJobs(db_jobs, old)
                       /\ db_results' = WithoutResultsOf(db_results, old)]_vars

\* An operation is partway: delete_job has deleted the job's results on its
\* connection and not yet the job, or save_job_results has inserted a part of
\* its batch; the committed tables still hold what they held before it began.
C21_Witness ==
    /\ txn # None
    /\ Len(txn[1].todo) = 1
    /\ txn[1].call.op \in {"delete_job", "save_job_results"}
    /\ txn[1].results # db_results


\* C32: a step of status(job_id) changes nothing of the controller or of the
\* store, it returns the job's status and progress as they are stored (or
\* not-found), and a status call that follows a status call for the same job
\* directly returns the same snapshot.
C32_StatusIsPureRead ==
    [][\A j \in JobIds : (last_op'.op = "status" /\ last_op'.id = j) =>
         /\ UNCHANGED << ctl_vars, db_vars >>
         /\ last_op' = IF j \in DOMAIN active_jobs
                       THEN Op("status", j, active_jobs[j].status,
                               << active_jobs[j].progress >>)
                       ELSE Op("status", j, "not_found", << >>)
         /\ (last_op.op = "status" /\ last_op.id = j) => last_op' = last_op]_vars

\* A status call answered for a job in the middle of its run.
C32_Witness ==
    /\ last_op.op = "status"
    /\ last_op.ret = RUNNING
    /\ last_op.id \in DOMAIN active_jobs
    /\ active_jobs[last_op.id].progress.current > 0
    /\ active_jobs[last_op.id].progress.current < active_jobs[last_op.id].progress.total


\* C33: in every reachable state of the store, get_job_results(job_id) returns
\* None exactly when no job with that id is stored; for a stored job without
\* results it returns the empty list.
C33_NoneIffNoJob ==
    \A j \in StoreIds : (DbGetJobResults(j) = None) <=> (j \notin DOMAIN db_jobs)

\* C34: in every reachable state of the store, every result row refers to a job
\* that is stored.
C34_NoOrphanResults ==
    \A k \in DOMAIN db_results : db_results[k].job_id \in DOMAIN db_jobs

C35_CompletedHasResults ==
    /\ \A j \in DOMAIN active_jobs :
          active_jobs[j].status = COMPLETED => GetJobResults(j) # None
    /\ (last_op.op = "results" /\ last_op.ret = "ok") => last_op.out # None

\* A results request answered with the results of a Completed job.
C35_Witness ==
    /\ last_op.op = "results"
    /\ last_op.ret = "ok"
    /\ last_op.id \in DOMAIN active_jobs
    /\ active_jobs[last_op.id].status = COMPLETED
    /\ last_op.out # None
    /\ Len(last_op.out[1]) > 0


\* C31: a step of an operation on one job leaves every other job as it was: its
\* status, progress and error, its results, the state of its run, and its row
\* in the store. And a run ends as it would alone: a finished job holds results
\* of the configurations of its own sweep only, one at most for each, with its
\* own total; a failed job holds the error of its own expansion.
C31_JobsIndependent ==
    [][\A x \in PairIds :
         /\ x # last_op'.id =>
               /\ x \in DOMAIN active_jobs =>
                     x \in DOMAIN active_jobs' /\ active_jobs'[x] = active_jobs[x]
               /\ x \in DOMAIN job_results =>
                     x \in DOMAIN job_results' /\ job_results'[x] = job_results[x]
               /\ pc'[x] = pc[x] /\ task_sweep'[x] = task_sweep[x]
               /\ configs'[x] = configs[x] /\ futures'[x] = futures[x]
               /\ results'[x] = results[x] /\ completed'[x] = completed[x]
               /\ x \in DOMAIN db_jobs =>
                     x \in DOMAIN db_jobs' /\ db_jobs'[x] = db_jobs[x]
         /\ pc'[x] = "done" =>
               LET own == ConfigsOf[task_sweep'[x][1]]
               IN /\ Len(job_results'[x]) <= Len(own)
                  /\ \A i \in DOMAIN job_results'[x] :
                        \E k \in DOMAIN own : job_results'[x][i] = SimulationResult(own[k])
                  /\ active_jobs'[x].progress.total = Len(own)
                  /\ active_jobs'[x].progress.current = Len(own)
         /\ pc'[x] = "failed" =>
               active_jobs'[x].error = ExpandErrorOf[task_sweep'[x][1]]]_vars

\* Two jobs of different sweeps have both finished, each with its own result,
\* and one of them was cancelled on the way.
C31_Witness ==
    /\ DOMAIN active_jobs = PairIds
    /\ \A x \in PairIds : pc[x] = "done" /\ Len(job_results[x]) = 1
    /\ job_results[1] # job_results[2]
    /\ \E x \in PairIds : cancelled_from[x] # "none"


\* C37: in every reachable state active_connections holds exactly the
\* connections whose handler has accepted and not yet left, each of them once.
C37_ConnectionsRegistered ==
    /\ \A c \in Conns :
          (ws_pc[c].at # "closed") <=> (\E i \in DOMAIN active_connections :
                                           active_connections[i] = c)
    /\ \A i, k \in DOMAIN active_connections :
          active_connections[i] = active_connections[k] => i = k

\* The connection accepted first has left through a disconnect or a send error
\* while the connection accepted after it stays registered.
C37_Witness ==
    /\ last_op.op \in {"ws_disconnect", "ws_error"}
    /\ ws_pc[1].at = "closed"
    /\ ws_pc[2].at = "sent"
    /\ active_connections = << 2 >>

=============================================================================
